---- MODULE Spec2Model ----
(***************************************************************************)
(* Alexandria: the two-tier cache (CacheManager), the GitHub API client    *)
(* (GitHubApiClient, in its direct and its queued form) and the            *)
(* properties the specification states about them.                         *)
(*                                                                         *)
(* Strings are sequences of tokens (a character, or a literal of the code  *)
(* such as "api-GET-"), so that prefixing, sanitising and substring tests  *)
(* are computed as the code computes them.                                 *)
(* Time is Date.now() in milliseconds; it advances between operations.     *)
(***************************************************************************)
EXTENDS Integers, Sequences, FiniteSets, TLC

VARIABLES now, ticks, sets, localStorage, idb, lastOp,
          rateLimitState, calls, invocations, parsedReset, lastEtag,
          hist, engine, link, queued, observed, stepped

vars == <<now, ticks, sets, localStorage, idb, lastOp,
          rateLimitState, calls, invocations, parsedReset, lastEtag,
          hist, engine, link, queued, observed, stepped>>

clientVars == <<rateLimitState, calls, invocations, parsedReset, lastEtag>>

\* the reading history calls, the discovery engine and the link resolver
sideVars == <<hist, engine, link, queued, observed, stepped>>

cacheVars == <<now, ticks, sets, localStorage, idb, lastOp>>

(***************************************************************************)
(* Bounds of the model.                                                    *)
(***************************************************************************)
\* number of times the clock is advanced in one behaviour
MaxTicks == 2
\* number of set operations performed on the cache in one behaviour
MaxSets == 3
\* number of client operations invoked in one behaviour
MaxCalls == 2

(***************************************************************************)
(* Program constants.                                                      *)
(***************************************************************************)
\* CacheManager.defaultTTL = 6 * 60 * 60 * 1000
defaultTTL == 21600000
\* set(): "if (sizeKB < 100)" selects localStorage
SizeThresholdKB == 100

metadataPrefix == <<"alexandria-", "meta-">>
historyKey == <<"alexandria-", "history">>

(***************************************************************************)
(* Values.  A cached value is a JSON document (the body of a response);    *)
(* kb is the size in KB of the serialized CacheItem holding it.            *)
(***************************************************************************)
Values == { [body |-> "v1", kb |-> 1], [body |-> "v2", kb |-> 100] }

Null == [kind |-> "null"]
NoItem == [kind |-> "none"]

\* '/' and '?' stand for the characters generateCacheKey replaces
Endpoints == { <<"/","a">>, <<"/","b">> }

\* replace(/[^a-zA-Z0-9-_]/g, '-') on one token
SanitizeChar(c) == IF c \in {"a", "b", "-", "_", "api-GET-"} THEN c ELSE "-"

Sanitize(s) == [i \in 1..Len(s) |-> SanitizeChar(s[i])]

\* `api-${method}-${endpoint}-${body}` with method GET and no body
generateCacheKey(endpoint) ==
    Sanitize(<<"api-GET-">> \o endpoint \o <<"-">>)

CacheKeys == { generateCacheKey(e) : e \in Endpoints }

MetaKey(key) == metadataPrefix \o key

LSKeys == CacheKeys \cup { MetaKey(k) : k \in CacheKeys } \cup { historyKey }

(***************************************************************************)
(* CacheManager: pure operators on the storage state                       *)
(*   st = [ls |-> localStorage, idb |-> the IndexedDB object store].       *)
(***************************************************************************)
getMetadata(st, key) == st.ls[MetaKey(key)]

isExpired(item, t) == t > item.timestamp + item.ttl

\* the object-store delete left out
invalidateKey_KeepsDb(st, key) ==
    [ls  |-> [st.ls EXCEPT ![key] = NoItem, ![MetaKey(key)] = NoItem],
     idb |-> st.idb]

invalidateKey(st, key) ==
    [ls  |-> [st.ls EXCEPT ![key] = NoItem, ![MetaKey(key)] = NoItem],
     idb |-> [st.idb EXCEPT ![key] = NoItem]]

\* get(key) at time t: the storage afterwards and the value returned
CacheGet(st, key, t) ==
    LET metadata == getMetadata(st, key) IN
    IF metadata.kind = "none" \/ isExpired(metadata, t)
    THEN [st |-> invalidateKey(st, key), result |-> Null]
    ELSE LET localItem == st.ls[key]
             dbItem == st.idb[key] IN
         IF localItem.kind = "item" /\ ~isExpired(localItem, t)
         THEN [st |-> st, result |-> localItem.data]
         ELSE IF dbItem.kind = "item" /\ ~isExpired(dbItem, t)
              THEN [st |-> st, result |-> dbItem.data]
              ELSE [st |-> st, result |-> Null]

SizeKB(value) == value.kb

ActualTTL(ttl) == IF ttl = 0 THEN defaultTTL ELSE ttl

NewMetadata(t, ttl, value) ==
    [kind |-> "meta", timestamp |-> t, ttl |-> ActualTTL(ttl),
     size |-> SizeKB(value), etag |-> "", lastModified |-> ""]

setMetadata(st, key, metadata, fault) ==
    IF fault = "metadata" THEN st
    ELSE [st EXCEPT !.ls[MetaKey(key)] = metadata]

\* set(key, value, ttl) at time t.  fault names the storage write that
\* throws: "none", "payload" (setItem / put) or "metadata" (setMetadata).
CacheSet(st, key, value, ttl, t, fault) ==
    LET item == [kind |-> "item", data |-> value, timestamp |-> t,
                 ttl |-> ActualTTL(ttl)] IN
    IF fault = "payload" THEN st
    ELSE IF SizeKB(value) < SizeThresholdKB
         THEN setMetadata([st EXCEPT !.ls[key] = item], key,
                          NewMetadata(t, ttl, value), fault)
         ELSE setMetadata([st EXCEPT !.idb[key] = item], key,
                          NewMetadata(t, ttl, value), fault)

\* the storage writes of set that can fail
Faults == {"payload", "metadata"}

\* a failing write escapes set
CacheSetThrows_Uncaught(fault) == fault \in Faults

\* set: the payload write is inside its try block, the metadata write
\* inside the try block of setMetadata
CacheSetThrows(fault) == fault \notin ({"none"} \cup Faults)

getCacheHeaders(st, key) ==
    LET metadata == getMetadata(st, key) IN
    IF metadata.kind = "none"
    THEN [ifNoneMatch |-> "", ifModifiedSince |-> ""]
    ELSE [ifNoneMatch |-> metadata.etag,
          ifModifiedSince |-> metadata.lastModified]

updateCacheHeaders(st, key, etag, lastModified) ==
    LET metadata == getMetadata(st, key) IN
    IF metadata.kind = "none" THEN st
    ELSE [st EXCEPT !.ls[MetaKey(key)] =
            [metadata EXCEPT
               !.etag = IF etag # "" THEN etag ELSE @,
               !.lastModified = IF lastModified # "" THEN lastModified ELSE @]]

\* s.includes(p)
Includes(s, p) ==
    \E i \in 1..(Len(s) + 1) :
        /\ i + Len(p) - 1 <= Len(s)
        /\ SubSeq(s, i, i + Len(p) - 1) = p

StartsWith(s, p) == Len(p) <= Len(s) /\ SubSeq(s, 1, Len(p)) = p

\* the object store is left as it is
CacheInvalidate_KeepsDb(st, pattern) ==
    [ls  |-> [k \in DOMAIN st.ls |->
                IF Includes(k, pattern) THEN NoItem ELSE st.ls[k]],
     idb |-> st.idb]

\* invalidate(pattern): localStorage keys, then the object store, then
\* clearMetadataPattern
CacheInvalidate(st, pattern) ==
    [ls  |-> [k \in DOMAIN st.ls |->
                IF Includes(k, pattern) THEN NoItem ELSE st.ls[k]],
     idb |-> [k \in DOMAIN st.idb |->
                IF Includes(k, pattern) THEN NoItem ELSE st.idb[k]]]

Storage == [ls |-> localStorage, idb |-> idb]

(***************************************************************************)
(* The cache used on its own.                                              *)
(***************************************************************************)
NoOp == [op |-> "none"]

CacheInit ==
    /\ now = 0
    /\ ticks = 0
    /\ sets = 0
    /\ localStorage = [k \in LSKeys |-> NoItem]
    /\ idb = [k \in CacheKeys |-> NoItem]
    /\ lastOp = NoOp

\* the ttl argument of set: undefined (0) or the 6 hours the client passes
TTLArgs == {0, defaultTTL}

Patterns == { <<"-", "a", "-">>, <<"api-GET-">> }

\* the values in the payload records of the key, expired or not
PayloadValues(st, key) ==
    { item.data : item \in { i \in {st.ls[key], st.idb[key]} : i.kind = "item" } }

CSet(key, value, ttl, fault) ==
    LET st == CacheSet(Storage, key, value, ttl, now, fault) IN
    /\ sets < MaxSets
    /\ sets' = sets + 1
    /\ localStorage' = st.ls
    /\ idb' = st.idb
    /\ lastOp' = [op |-> "set", key |-> key, value |-> value, at |-> now,
                  ttl |-> ActualTTL(ttl), ok |-> fault = "none",
                  threw |-> CacheSetThrows(fault),
                  before |-> CacheGet(Storage, key, now).result,
                  held |-> PayloadValues(Storage, key)]
    /\ UNCHANGED <<now, ticks, clientVars, sideVars>>

\* an unexpired payload record of the key holding this value
FreshCopy(st, key, value, t) ==
    \E item \in {st.ls[key], st.idb[key]} :
        item.kind = "item" /\ item.data = value /\ ~(t > item.timestamp + item.ttl)

CGet(key) ==
    LET r == CacheGet(Storage, key, now)
        metadata == getMetadata(Storage, key) IN
    /\ localStorage' = r.st.ls
    /\ idb' = r.st.idb
    /\ lastOp' = [op |-> "get", key |-> key, result |-> r.result,
                  expired |-> metadata.kind = "meta"
                              /\ now > metadata.timestamp + metadata.ttl,
                  hadLocal |-> localStorage[key].kind = "item",
                  hadDb |-> idb[key].kind = "item",
                  stale |-> r.result # Null
                            /\ ~FreshCopy(Storage, key, r.result, now),
                  justSet |-> IF /\ lastOp.op = "set" /\ lastOp.key = key
                                 /\ lastOp.ok /\ now <= lastOp.at + lastOp.ttl
                              THEN lastOp.value ELSE Null,
                  prev |-> IF lastOp.op = "get" /\ lastOp.key = key
                           THEN lastOp.result ELSE NoItem,
                  failedSet |-> IF /\ lastOp.op = "set" /\ lastOp.key = key
                                   /\ ~lastOp.ok
                                THEN [value |-> lastOp.value,
                                      before |-> lastOp.before,
                                      held |-> lastOp.held]
                                ELSE NoItem]
    /\ UNCHANGED <<now, ticks, sets, clientVars, sideVars>>

CInvalidate(pattern) ==
    LET st == CacheInvalidate(Storage, pattern) IN
    /\ localStorage' = st.ls
    /\ idb' = st.idb
    /\ lastOp' = [op |-> "invalidate", pattern |-> pattern,
                  hit |-> { k \in CacheKeys :
                              /\ Includes(k, pattern)
                              /\ CacheGet(Storage, k, now).result # Null }]
    /\ UNCHANGED <<now, ticks, sets, clientVars, sideVars>>

\* the clock advances by a millisecond or by a whole default TTL
TickSteps == {1, defaultTTL}

Tick(d) ==
    /\ ticks < MaxTicks
    /\ now' = now + d
    /\ ticks' = ticks + 1
    /\ UNCHANGED <<sets, localStorage, idb, lastOp, clientVars, sideVars>>

CacheNext ==
    \/ \E k \in CacheKeys, v \in Values, ttl \in TTLArgs :
          CSet(k, v, ttl, "none")
    \/ \E k \in CacheKeys : CGet(k)
    \/ \E p \in Patterns : CInvalidate(p)
    \/ \E d \in TickSteps : Tick(d)

\* the cache with storage writes that fail
FaultyCacheNext ==
    \/ \E k \in CacheKeys, v \in Values, ttl \in TTLArgs,
          fault \in {"none"} \cup Faults : CSet(k, v, ttl, fault)
    \/ \E k \in CacheKeys : CGet(k)
    \/ \E d \in TickSteps : Tick(d)

(***************************************************************************)
(* GitHubApiClient.                                                        *)
(***************************************************************************)
\* the retry configuration
maxRetries == 2
\* the ttl executeRequest passes to cache.set: 6 * 60 * 60 * 1000
responseTTL == 21600000

CallIds == {1, 2}

Digits == {"0", "1", "2", "3", "4", "5", "6", "7", "8", "9"}

DigitValue(c) ==
    CASE c = "0" -> 0 [] c = "1" -> 1 [] c = "2" -> 2 [] c = "3" -> 3
      [] c = "4" -> 4 [] c = "5" -> 5 [] c = "6" -> 6 [] c = "7" -> 7
      [] c = "8" -> 8 [] c = "9" -> 9

\* NaN
NaN == -1

RECURSIVE parseIntFrom(_, _, _)
parseIntFrom(s, i, acc) ==
    IF i > Len(s) \/ s[i] \notin Digits THEN acc
    ELSE parseIntFrom(s, i + 1, acc * 10 + DigitValue(s[i]))

\* parseInt(s, 10): the value of the leading decimal digits
parseInt(s) ==
    IF Len(s) = 0 \/ s[1] \notin Digits THEN NaN ELSE parseIntFrom(s, 1, 0)

\* a header the response does not carry reads as the empty string
Absent == <<>>

NoQuota == [limit |-> Absent, remaining |-> Absent, reset |-> Absent, used |-> Absent]

QuotaHeaders ==
    { NoQuota,
      [limit |-> <<"6","0">>, remaining |-> <<"0">>,
       reset |-> <<"7","2","0","0">>, used |-> <<"6","0">>],
      [limit |-> <<"6","0">>, remaining |-> <<"5","9">>,
       reset |-> <<"9","0","0","0">>, used |-> <<"1">>],
      [limit |-> <<"6","0">>, remaining |-> <<"0">>,
       reset |-> <<"9","9","0","0">>, used |-> Absent] }

\* status 0 stands for fetch() rejecting (no response)
Responses ==
    [status : {0}, quota : {NoQuota}, retryAfter : {Absent},
     etag : {""}, body : {Null}]
    \cup [status : {200}, quota : QuotaHeaders, retryAfter : {Absent},
          etag : {"", "abc"}, body : Values]
    \cup [status : {304, 404, 408, 500}, quota : QuotaHeaders,
          retryAfter : {Absent}, etag : {""}, body : {Null}]
    \cup [status : {403, 429}, quota : QuotaHeaders,
          retryAfter : {Absent, <<"3","0">>}, etag : {""}, body : {Null}]

InitialRateLimit ==
    [limit |-> 60, remaining |-> 60, reset |-> (0 \div 1000) + 3600, used |-> 0]

\* the reset field is not taken from the headers
updateRateLimitFromHeaders_KeepsReset(rl, h) ==
    IF h.limit # Absent /\ h.remaining # Absent /\ h.reset # Absent /\ h.used # Absent
    THEN [limit |-> parseInt(h.limit), remaining |-> parseInt(h.remaining),
          reset |-> rl.reset, used |-> parseInt(h.used)]
    ELSE rl

\* each field is taken from its own header when that header is present
updateRateLimitFromHeaders_Partial(rl, h) ==
    [limit |-> IF h.limit # Absent THEN parseInt(h.limit) ELSE rl.limit,
     remaining |-> IF h.remaining # Absent THEN parseInt(h.remaining)
                   ELSE rl.remaining,
     reset |-> IF h.reset # Absent THEN parseInt(h.reset) ELSE rl.reset,
     used |-> IF h.used # Absent THEN parseInt(h.used) ELSE rl.used]

updateRateLimitFromHeaders(rl, h) ==
    IF h.limit # Absent /\ h.remaining # Absent /\ h.reset # Absent /\ h.used # Absent
    THEN [limit |-> parseInt(h.limit), remaining |-> parseInt(h.remaining),
          reset |-> parseInt(h.reset), used |-> parseInt(h.used)]
    ELSE rl

Ok(value) == [kind |-> "ok", value |-> value]

\* statusCode defaults to 403
RateLimitError(resetTime, statusCode) ==
    [kind |-> "RateLimitError", resetTime |-> resetTime, statusCode |-> statusCode]

SecondaryRateLimitError(retryAfter, statusCode) ==
    [kind |-> "SecondaryRateLimitError", retryAfter |-> retryAfter,
     statusCode |-> statusCode]

\* statusCode 0 stands for undefined
NetworkError(statusCode) == [kind |-> "NetworkError", statusCode |-> statusCode]

\* what fetch() rejects with
FetchRejection == [kind |-> "TypeError"]

ErrorTypes == {"RateLimitError", "SecondaryRateLimitError", "NetworkError"}

\* an error of another type is thrown on as it is
ToTypedError_Rethrow(error) == error

\* the catch of executeRequest: the three error types are thrown on, any
\* other error becomes a NetworkError without a status code
ToTypedError(error) ==
    IF error.kind \in ErrorTypes THEN error ELSE NetworkError(0)

\* every NetworkError retried
isRetryableError_Always(error) == TRUE

isRetryableError(error) ==
    IF error.statusCode = 0 THEN TRUE
    ELSE error.statusCode >= 500 \/ error.statusCode = 408

\* secondary rate limits retried as well (the backoff of the queued client)
ShouldRetry_Secondary(error, retryCount) ==
    \/ error.kind = "SecondaryRateLimitError" /\ retryCount < maxRetries
    \/ /\ error.kind = "NetworkError"
       /\ retryCount < maxRetries
       /\ isRetryableError(error)

\* the catch of executeRequestWithRetry
ShouldRetry(error, retryCount) ==
    /\ error.kind = "NetworkError"
    /\ retryCount < maxRetries
    /\ isRetryableError(error)

\* retry-after honoured on 429 only
RateLimitFailure_Only429(resp, rl) ==
    IF resp.retryAfter # Absent /\ resp.status = 429
    THEN SecondaryRateLimitError(parseInt(resp.retryAfter), resp.status)
    ELSE RateLimitError(rl.reset, resp.status)

\* the error thrown for a 403 / 429 response
RateLimitFailure(resp, rl) ==
    IF resp.retryAfter # Absent
    THEN SecondaryRateLimitError(parseInt(resp.retryAfter), resp.status)
    ELSE RateLimitError(rl.reset, resp.status)

\* the admission check passes although no quota remains
PreflightBlocked_Never(rl) == FALSE

\* makeRequest: "if (this.rateLimitState.remaining === 0)"
PreflightBlocked(rl) == rl.remaining = 0

\* the cache is not consulted (makeRequest of the queued client)
PreflightOutcome_NoCache(cached, rl) == RateLimitError(rl.reset, 403)

\* makeRequest with no quota left: the cached value, else RateLimitError
PreflightOutcome(cached, rl) ==
    IF cached # Null THEN Ok(cached) ELSE RateLimitError(rl.reset, 403)

ResponseOk(status) == status >= 200 /\ status <= 299

NoHeaders == [ifNoneMatch |-> "", ifModifiedSince |-> ""]
NoResp == [status |-> -1, retryAfter |-> Absent, etag |-> "", body |-> Null]
NoOutcome == [kind |-> "none"]
NoPre == [zero |-> FALSE, held |-> FALSE, cached |-> Null, reset |-> 0]

IdleCall ==
    [pc |-> "idle", endpoint |-> <<>>, retryCount |-> 0, attempts |-> 0,
     sent |-> NoHeaders, resp |-> NoResp, outcome |-> NoOutcome,
     pre |-> NoPre, respCached |-> Null, expectEtag |-> "", parsedAt |-> NaN]

\* executeRequest after fetch() has settled with resp: the quota state, the
\* storage and what the attempt does next: "return" a value, "throw" an
\* error, or "store" (the payload is written, the conditional metadata is
\* still to be updated)
HandleResponse(st, rl, key, resp, t) ==
    IF resp.status = 0
    THEN [st |-> st, rl |-> rl, kind |-> "throw",
          value |-> ToTypedError(FetchRejection)]
    ELSE
    LET rl1 == updateRateLimitFromHeaders(rl, resp.quota)
        g304 == IF resp.status = 304 THEN CacheGet(st, key, t)
                ELSE [st |-> st, result |-> Null]
        gLimit == CacheGet(g304.st, key, t)
        gCatch == CacheGet(gLimit.st, key, t)
    IN  IF resp.status = 304 /\ g304.result # Null
        THEN [st |-> g304.st, rl |-> rl1, kind |-> "return", value |-> g304.result]
        ELSE IF resp.status \in {403, 429}
        THEN IF gLimit.result # Null
             THEN [st |-> gLimit.st, rl |-> rl1, kind |-> "return",
                   value |-> gLimit.result]
             ELSE IF gCatch.result # Null
             THEN [st |-> gCatch.st, rl |-> rl1, kind |-> "return",
                   value |-> gCatch.result]
             ELSE [st |-> gCatch.st, rl |-> rl1, kind |-> "throw",
                   value |-> RateLimitFailure(resp, rl1)]
        ELSE IF ~ResponseOk(resp.status)
        THEN [st |-> g304.st, rl |-> rl1, kind |-> "throw",
              value |-> NetworkError(resp.status)]
        ELSE [st |-> CacheSet(g304.st, key, resp.body, responseTTL, t, "none"),
              rl |-> rl1, kind |-> "store", value |-> resp.body]

ClientInit ==
    /\ rateLimitState = InitialRateLimit
    /\ calls = [c \in CallIds |-> IdleCall]
    /\ invocations = 0
    /\ parsedReset = NaN
    /\ lastEtag = [k \in CacheKeys |-> ""]

(***************************************************************************)
(* The queued client (services/GitHubApiClient.ts): makeRequest hands      *)
(* executeRequestWithRetry to a RequestQueue, whose processQueue executes  *)
(* the queued requests one after the other.                                *)
(***************************************************************************)
MaxQueued == 2

QIds == 1..MaxQueued

\* "private readonly maxRetries = 3"
queuedMaxRetries == 3

IdleRequest ==
    [pc |-> "idle", endpoint |-> <<>>, retryCount |-> 0, executions |-> 0,
     settlements |-> 0, sent |-> NoHeaders, resp |-> NoResp,
     outcome |-> NoOutcome, behind |-> FALSE]

\* queue and processing are the fields of RequestQueue; timer is the pending
\* setTimeout of processQueue; added and started record the order of the
\* calls of add and of execute; behind tells that the request was added
\* while the loop of processQueue was running
IdleQueue ==
    [queue |-> <<>>, processing |-> FALSE, timer |-> FALSE,
     req |-> [i \in QIds |-> IdleRequest], added |-> <<>>, started |-> <<>>]

(***************************************************************************)
(* The direct client with the steps of CacheManager.get and set told       *)
(* apart: a request to the object store is issued in one step and          *)
(* completes in a later one, in the order of issue.                        *)
(***************************************************************************)
MaxStepped == 3

SIds == 1..MaxStepped

\* the key all the calls ask for
SteppedKey == generateCacheKey(<<"/", "a">>)

\* freshUntil: when the call is made, the time at which the TTL of the last
\* success before it elapses (0 when no call has succeeded)
IdleOp ==
    [pc |-> "idle", freshUntil |-> 0, resp |-> NoResp, outcome |-> NoOutcome]

\* requests: the object-store requests issued and not completed;
\* succeededAt: the time cache.set gave to the entry of the call that last
\* returned the body of a 2xx response (-1 for none)
IdleStepped ==
    [op |-> [i \in SIds |-> IdleOp], requests |-> <<>>, succeededAt |-> -1]

(***************************************************************************)
(* The reading history: CacheManager.getReadingHistory and addToHistory.   *)
(* addToHistory awaits getReadingHistory, so a call reads the stored list  *)
(* in one step and writes the new list in a later one.                     *)
(***************************************************************************)
\* "filtered.slice(0, 50)"
HistoryLimit == 50

MaxAdds == 3

HCallIds == {1, 2}

Entry(owner, repo, path, title) ==
    [owner |-> owner, repo |-> repo, path |-> path, title |-> title]

\* the history of a reader who opened documents 1 .. n of one repository
Prefill(n) == [i \in 1..n |-> Entry("o", "r", n + 1 - i, "old")]

PrefillLengths == {0, HistoryLimit - 1, HistoryLimit}

\* the items added: documents in the history and documents that are not
AddItems ==
    { Entry("o", "r", 1, "new"), Entry("o", "r", HistoryLimit, "new"),
      Entry("o", "r", HistoryLimit + 1, "new"), Entry("o", "r2", 1, "new"),
      Entry("o2", "r", 1, "new") }

StoredHistory(items) == [kind |-> "history", items |-> items]

getReadingHistory(ls) ==
    IF ls[historyKey].kind = "history" THEN ls[historyKey].items ELSE <<>>

SameDocument(h, item) ==
    h.owner = item.owner /\ h.repo = item.repo /\ h.path = item.path

Slice(s, n) == IF Len(s) <= n THEN s ELSE SubSeq(s, 1, n)

\* the earlier entry of the document is kept
Trimmed_NoFilter(history, item) ==
    Slice(<<item>> \o history, HistoryLimit)

\* addToHistory: filter, unshift, slice
Trimmed(history, item) ==
    LET IsOther(h) == ~SameDocument(h, item) IN
    Slice(<<item>> \o SelectSeq(history, IsOther), HistoryLimit)

IdleHCall == [pc |-> "idle"]

IdleHist ==
    [calls |-> [c \in HCallIds |-> IdleHCall], adds |-> 0, lastAdded |-> NoItem]

\* addToHistory up to its await: the stored list is read
AddToHistoryRead(c, item) ==
    /\ hist.calls[c].pc = "idle"
    /\ \A d \in HCallIds : d < c => hist.calls[d].pc # "idle"
    /\ hist.adds < MaxAdds
    /\ hist' = [hist EXCEPT
                  !.adds = @ + 1,
                  !.calls[c] = [pc |-> "read", item |-> item,
                                history |-> getReadingHistory(localStorage)]]
    /\ UNCHANGED <<cacheVars, clientVars, engine, link, queued, observed, stepped>>

\* addToHistory after its await: the new list is written
AddToHistoryWrite(c) ==
    /\ hist.calls[c].pc = "read"
    /\ localStorage' = [localStorage EXCEPT ![historyKey] =
            StoredHistory(Trimmed(hist.calls[c].history, hist.calls[c].item))]
    /\ hist' = [hist EXCEPT !.calls[c] = IdleHCall,
                            !.lastAdded = hist.calls[c].item]
    /\ UNCHANGED <<now, ticks, sets, idb, lastOp, clientVars, engine, link, queued, observed, stepped>>

(***************************************************************************)
(* RandomEngine.getRandomRepository.  The API client is seen through the   *)
(* outcome of each call: it throws, returns an empty list, or returns a    *)
(* list from which an element is picked.                                   *)
(***************************************************************************)
\* "const maxAttempts = 5"
maxAttempts == 5

MaxDiscoveries == 2

ApiResults == {"throws", "empty", "found"}

Repositories == {"repo1", "repo2"}

\* the loop runs once more than maxAttempts
MoreAttempts_Inclusive(attempts) == attempts <= maxAttempts

\* "while (attempts < maxAttempts)"
MoreAttempts(attempts) == attempts < maxAttempts

\* the errors the API client throws
ApiErrorKinds == {"RateLimitError", "SecondaryRateLimitError", "NetworkError"}

\* the error kinds a call of the API client with result r can have thrown
Kinds(r) == IF r = "throws" THEN ApiErrorKinds ELSE {"none"}

\* "throw new Error(...)" in a catch block: the kind of the error caught is
\* not kept
Wrapped(kind) == "Error"

\* op: the method called; raised: the kind of the error the API client threw
\* in the last step ("none" if it returned); error: the kind of the error the
\* method has thrown; links and target: the links found by getNextFromTrail
\* and the path it asked for
IdleEngine ==
    [pc |-> "idle", discoveries |-> 0, attempts |-> 0, failed |-> 0,
     searches |-> 0, userSearches |-> 0, listings |-> 0,
     primary |-> "none", outcome |-> "none", repository |-> "none",
     op |-> "none", raised |-> "none", error |-> "none",
     links |-> 0, target |-> NoItem]

\* getRandomRepository is called: searchRandomRepository awaits the search
GetRandomRepository ==
    /\ engine.pc \in {"idle", "done"}
    /\ engine.discoveries < MaxDiscoveries
    /\ engine' = [IdleEngine EXCEPT !.pc = "search",
                                    !.op = "getRandomRepository",
                                    !.discoveries = engine.discoveries + 1]
    /\ UNCHANGED <<cacheVars, clientVars, hist, link, queued, observed, stepped>>

\* the entry of the while loop, at the start and after a failed attempt
LoopEntry(e) ==
    IF MoreAttempts(e.attempts)
    THEN [e EXCEPT !.pc = "userSearch", !.attempts = @ + 1]
    ELSE [e EXCEPT !.pc = "done", !.outcome = "throw",
                   !.error = Wrapped(e.raised)]

\* the catch inside the loop
AttemptFailed(e) ==
    IF e.attempts < maxAttempts
    THEN [e EXCEPT !.pc = "sleeping", !.failed = @ + 1]
    ELSE LoopEntry([e EXCEPT !.failed = @ + 1])

\* apiClient.searchRepositories settles
SearchSettles(r, repo) ==
    /\ engine.pc = "search"
    /\ r = "found" \/ repo = "repo1"
    /\ \E k \in Kinds(r) :
       \E e \in {[engine EXCEPT !.searches = @ + 1, !.primary = r,
                                !.raised = k]} :
         engine' = IF r = "found"
                   THEN [e EXCEPT !.pc = "done", !.outcome = "return",
                                  !.repository = repo]
                   ELSE LoopEntry(e)
    /\ UNCHANGED <<cacheVars, clientVars, hist, link, queued, observed, stepped>>

\* apiClient.searchUsers settles in getRandomUserRepository
UserSearchSettles(r) ==
    /\ engine.pc = "userSearch"
    /\ \E k \in Kinds(r) :
       \E e \in {[engine EXCEPT !.userSearches = @ + 1, !.raised = k]} :
         engine' = IF r = "found" THEN [e EXCEPT !.pc = "listing"]
                   ELSE AttemptFailed(e)
    /\ UNCHANGED <<cacheVars, clientVars, hist, link, queued, observed, stepped>>

\* apiClient.getUserRepositories settles in getRandomUserRepository
ListingSettles(r, repo) ==
    /\ engine.pc = "listing"
    /\ r = "found" \/ repo = "repo1"
    /\ \E k \in Kinds(r) :
       \E e \in {[engine EXCEPT !.listings = @ + 1, !.raised = k]} :
         engine' = IF r = "found"
                   THEN [e EXCEPT !.pc = "done", !.outcome = "return",
                                  !.repository = repo]
                   ELSE AttemptFailed(e)
    /\ UNCHANGED <<cacheVars, clientVars, hist, link, queued, observed, stepped>>

\* sleep(1000) is over
SleepOver ==
    /\ engine.pc = "sleeping"
    /\ engine' = LoopEntry(engine)
    /\ UNCHANGED <<cacheVars, clientVars, hist, link, queued, observed, stepped>>

(***************************************************************************)
(* Relative link resolution: RandomEngine.resolveRelativePath and          *)
(* LinkRewriter.resolveRelativePath.  A path is a sequence of tokens: "/"  *)
(* and the names between the slashes.                                      *)
(***************************************************************************)
MaxDepth == 2

MaxUp == 3

DirNames == <<"a", "b", "x", "y", "z">>

RECURSIVE Join(_)
\* parts.join('/')
Join(parts) ==
    IF parts = <<>> THEN <<>>
    ELSE IF Len(parts) = 1 THEN parts[1]
    ELSE parts[1] \o <<"/">> \o Join(Tail(parts))

\* the paths of documents in directories 0 .. MaxDepth deep
CurrentPaths ==
    { Join([i \in 1..(d + 1) |-> IF i <= d THEN <<DirNames[i]>> ELSE <<f>>]) :
          d \in 0..MaxDepth, f \in {"c.md", "r.md"} }

\* links: up to MaxUp parent steps, "./", and bare-relative ones
Hrefs ==
    { Join([i \in 1..(u + 1) |-> IF i <= u THEN <<"..">> ELSE <<>>]) \o t :
          u \in 1..MaxUp, t \in { <<"d.md">>, <<"s", "/", "d.md">> } }
    \cup { <<".", "/", "e.md">>, <<".", "/", "s", "/", "e.md">>,
           <<"e.md">>, <<"s", "/", "e.md">> }

IncludesSlash(s) == \E i \in 1..Len(s) : s[i] = "/"

\* s.lastIndexOf('/'), counted from 1
LastIndexOfSlash(s) ==
    CHOOSE i \in 1..Len(s) : s[i] = "/" /\ \A j \in (i + 1)..Len(s) : s[j] # "/"

\* currentPath.substring(0, currentPath.lastIndexOf('/')), or ''
CurrentDir(currentPath) ==
    IF IncludesSlash(currentPath)
    THEN SubSeq(currentPath, 1, LastIndexOfSlash(currentPath) - 1)
    ELSE <<>>

RECURSIVE Split(_)
\* s.split('/')
Split(s) ==
    IF ~IncludesSlash(s) THEN <<s>>
    ELSE LET i == CHOOSE k \in 1..Len(s) :
                      s[k] = "/" /\ \A j \in 1..(k - 1) : s[j] # "/"
         IN  <<SubSeq(s, 1, i - 1)>> \o Split(SubSeq(s, i + 1, Len(s)))

\* filter(p => p)
NonEmpty(parts) == LET Truthy(p) == p # <<>> IN SelectSeq(parts, Truthy)

RECURSIVE UpCount(_)
\* the number of leading '..' parts
UpCount(parts) ==
    IF parts # <<>> /\ parts[1] = <<"..">> THEN 1 + UpCount(Tail(parts)) ELSE 0

\* parts.slice(from)
SliceFrom(parts, from) == SubSeq(parts, from + 1, Len(parts))

\* parts.slice(0, end), end possibly negative (counted from the end)
SliceTo(parts, end) ==
    LET e == IF end < 0 THEN Len(parts) + end ELSE end IN
    IF e <= 0 THEN <<>>
    ELSE IF e >= Len(parts) THEN parts ELSE SubSeq(parts, 1, e)

Path(p) == [kind |-> "path", path |-> p]

\* RandomEngine.resolveRelativePath
RandomEngine_resolveRelativePath(relativePath, currentPath) ==
    LET currentDir == CurrentDir(currentPath) IN
    IF StartsWith(relativePath, <<".", "/">>)
    THEN IF currentDir # <<>>
         THEN Path(currentDir \o <<"/">> \o SubSeq(relativePath, 3, Len(relativePath)))
         ELSE Path(SubSeq(relativePath, 3, Len(relativePath)))
    ELSE IF StartsWith(relativePath, <<"..", "/">>)
    THEN LET parts == NonEmpty(Split(currentDir))
             relativeParts == NonEmpty(Split(relativePath))
             upCount == UpCount(relativeParts)
         IN  Path(Join(SliceTo(parts, 0 - upCount)
                       \o SliceFrom(relativeParts, upCount)))
    ELSE Path(relativePath)

\* LinkRewriter.resolveRelativePath
LinkRewriter_resolveRelativePath(href, currentPath) ==
    LET currentDir == CurrentDir(currentPath) IN
    IF StartsWith(href, <<".", "/">>)
    THEN IF currentDir # <<>>
         THEN Path(currentDir \o <<"/">> \o SubSeq(href, 3, Len(href)))
         ELSE Path(SubSeq(href, 3, Len(href)))
    ELSE IF StartsWith(href, <<"..", "/">>)
    THEN LET pathParts == SliceTo(Split(currentPath), 0 - 1)
             hrefParts == Split(href)
             upCount == UpCount(hrefParts)
             max == IF Len(pathParts) - upCount > 0
                    THEN Len(pathParts) - upCount ELSE 0
         IN  Path(Join(SliceTo(pathParts, max) \o SliceFrom(hrefParts, upCount)))
    ELSE IF currentDir # <<>>
         THEN Path(currentDir \o <<"/">> \o href)
         ELSE Path(href)

Resolvers == {"RandomEngine", "LinkRewriter"}

IdleLink == [pc |-> "idle"]

\* a relative link of a document is resolved
ResolveLink(resolver, href, currentPath) ==
    /\ link' = [pc |-> "resolved", resolver |-> resolver, href |-> href,
                currentPath |-> currentPath,
                result |-> IF resolver = "RandomEngine"
                           THEN RandomEngine_resolveRelativePath(href, currentPath)
                           ELSE LinkRewriter_resolveRelativePath(href, currentPath)]
    /\ UNCHANGED <<cacheVars, clientVars, hist, engine, queued, observed, stepped>>

LinkNext ==
    \E resolver \in Resolvers, href \in Hrefs, currentPath \in CurrentPaths :
        ResolveLink(resolver, href, currentPath)

(***************************************************************************)
(* RandomEngine.getRandomMarkdownFromRepo and getNextFromTrail.            *)
(***************************************************************************)
\* a call of the API client for one object throws or returns it
ObjectResults == {"throws", "found"}

\* a method has thrown from a catch block that wraps the error
Thrown(e) ==
    [e EXCEPT !.pc = "done", !.outcome = "throw", !.error = Wrapped(e.raised)]

Returned(e) == [e EXCEPT !.pc = "done", !.outcome = "return"]

\* getRandomMarkdownFromRepo is called: apiClient.getRepository is awaited
GetRandomMarkdownFromRepo ==
    /\ engine.pc \in {"idle", "done"}
    /\ engine.discoveries < MaxDiscoveries
    /\ engine' = [IdleEngine EXCEPT !.pc = "repository",
                                    !.op = "getRandomMarkdownFromRepo",
                                    !.discoveries = engine.discoveries + 1]
    /\ UNCHANGED <<cacheVars, clientVars, hist, link, queued, observed, stepped>>

\* apiClient.getRepository settles: getReadme is awaited, or the outer catch
\* throws
RepositorySettles(r) ==
    /\ engine.pc = "repository"
    /\ \E k \in Kinds(r) :
       \E e \in {[engine EXCEPT !.raised = k]} :
         engine' = IF r = "found" THEN [e EXCEPT !.pc = "readme"] ELSE Thrown(e)
    /\ UNCHANGED <<cacheVars, clientVars, hist, link, queued, observed, stepped>>

\* apiClient.getReadme settles: the README is returned, or the inner catch
\* goes on to findRandomMarkdownFile, which awaits getTreeRecursive
ReadmeSettles(r) ==
    /\ engine.pc = "readme"
    /\ \E k \in Kinds(r) :
       \E e \in {[engine EXCEPT !.raised = k]} :
         engine' = IF r = "found" THEN Returned(e) ELSE [e EXCEPT !.pc = "tree"]
    /\ UNCHANGED <<cacheVars, clientVars, hist, link, queued, observed, stepped>>

\* apiClient.getTreeRecursive settles: with a markdown file in the tree
\* getFileContent is awaited; with none, or when the call throws, the outer
\* catch throws
TreeSettles(r) ==
    /\ engine.pc = "tree"
    /\ \E k \in Kinds(r) :
       \E e \in {[engine EXCEPT !.raised = k]} :
         engine' = IF r = "found" THEN [e EXCEPT !.pc = "file"] ELSE Thrown(e)
    /\ UNCHANGED <<cacheVars, clientVars, hist, link, queued, observed, stepped>>

\* apiClient.getFileContent settles in findRandomMarkdownFile
FileSettles(r) ==
    /\ engine.pc = "file"
    /\ \E k \in Kinds(r) :
       \E e \in {[engine EXCEPT !.raised = k]} :
         engine' = IF r = "found" THEN Returned(e) ELSE Thrown(e)
    /\ UNCHANGED <<cacheVars, clientVars, hist, link, queued, observed, stepped>>

\* the links of a document: an absolute one, an anchor, an image, and
\* relative links to markdown files
DocumentLinks ==
    { <<"http", ":", "/", "/", "x", "/", "d.md">>, <<"#", "top">>,
      <<".", "/", "p.png">> }
    \cup { h \in Hrefs : Len(h) <= 3 }

\* the contents of documents, seen as the links in them
Contents ==
    { <<>> } \cup { <<l>> : l \in DocumentLinks }
    \cup { <<<<"#", "top">>, l>> : l \in DocumentLinks }

\* extractMarkdownLinks: "!href.startsWith('http') && !href.startsWith('#')
\* && (href.endsWith('.md') || href.endsWith('.mdx'))"
extractMarkdownLinks(content) ==
    LET Kept(href) == /\ href[1] \notin {"http", "#"}
                      /\ href[Len(href)] \in {"d.md", "e.md"} IN
    SelectSeq(content, Kept)

\* the error is thrown on to the caller
TrailCatch_Rethrow(e) ==
    [e EXCEPT !.pc = "done", !.outcome = "throw", !.error = e.raised]

\* "catch { return null }"
TrailCatch(e) == [e EXCEPT !.pc = "done", !.outcome = "null"]

\* getNextFromTrail is called: without links it returns null, otherwise one
\* of them is resolved and apiClient.getFileContent is awaited
GetNextFromTrail(content, currentPath) ==
    /\ engine.pc \in {"idle", "done"}
    /\ engine.discoveries < MaxDiscoveries
    /\ LET markdownLinks == extractMarkdownLinks(content)
           called == [IdleEngine EXCEPT
                        !.op = "getNextFromTrail",
                        !.links = Len(markdownLinks),
                        !.discoveries = engine.discoveries + 1] IN
       IF Len(markdownLinks) = 0
       THEN engine' = [called EXCEPT !.pc = "done", !.outcome = "null"]
       ELSE \E n \in 1..Len(markdownLinks) :
              engine' = [called EXCEPT
                           !.pc = "follow",
                           !.target = RandomEngine_resolveRelativePath(
                                          markdownLinks[n], currentPath)]
    /\ UNCHANGED <<cacheVars, clientVars, hist, link, queued, observed, stepped>>

\* apiClient.getFileContent settles in followMarkdownLink
FollowSettles(r) ==
    /\ engine.pc = "follow"
    /\ \E k \in Kinds(r) :
       \E e \in {[engine EXCEPT !.raised = k]} :
         engine' = IF r = "found" THEN Returned(e) ELSE TrailCatch(e)
    /\ UNCHANGED <<cacheVars, clientVars, hist, link, queued, observed, stepped>>

EngineNext ==
    \/ GetRandomRepository
    \/ \E r \in ApiResults, repo \in Repositories : SearchSettles(r, repo)
    \/ \E r \in ApiResults : UserSearchSettles(r)
    \/ \E r \in ApiResults, repo \in Repositories : ListingSettles(r, repo)
    \/ SleepOver
    \/ GetRandomMarkdownFromRepo
    \/ \E r \in ObjectResults : RepositorySettles(r)
    \/ \E r \in ObjectResults : ReadmeSettles(r)
    \/ \E r \in ApiResults : TreeSettles(r)
    \/ \E r \in ObjectResults : FileSettles(r)
    \/ \E content \in Contents, currentPath \in CurrentPaths :
          GetNextFromTrail(content, currentPath)
    \/ \E r \in ObjectResults : FollowSettles(r)

HistoryInit ==
    /\ now = 0 /\ ticks = 0 /\ sets = 0
    /\ \E n \in PrefillLengths :
          localStorage = [k \in LSKeys |->
              IF k = historyKey /\ n > 0 THEN StoredHistory(Prefill(n))
              ELSE NoItem]
    /\ idb = [k \in CacheKeys |-> NoItem]
    /\ lastOp = NoOp
    /\ ClientInit
    /\ hist = IdleHist
    /\ engine = IdleEngine
    /\ link = IdleLink
    /\ queued = IdleQueue
    /\ observed = NoQuota
    /\ stepped = IdleStepped

HistoryNext ==
    \/ \E c \in HCallIds, item \in AddItems : AddToHistoryRead(c, item)
    \/ \E c \in HCallIds : AddToHistoryWrite(c)

SpecHistory == HistoryInit /\ [][HistoryNext]_vars

Init ==
    /\ CacheInit
    /\ ClientInit
    /\ hist = IdleHist
    /\ engine = IdleEngine
    /\ link = IdleLink
    /\ queued = IdleQueue
    /\ observed = NoQuota
    /\ stepped = IdleStepped

SpecEngine == Init /\ [][EngineNext]_vars

SpecLinks == Init /\ [][LinkNext]_vars

(***************************************************************************)
(* Observations recorded with a call, for the properties below: what the   *)
(* cache held and what the quota state was when the call was made, what    *)
(* the cache held when a response arrived, and the reset header last       *)
(* parsed when a RateLimitError was raised.                                *)
(***************************************************************************)
HasUnexpiredEntry(st, key, t) ==
    /\ st.ls[MetaKey(key)].kind = "meta"
    /\ ~(t > st.ls[MetaKey(key)].timestamp + st.ls[MetaKey(key)].ttl)
    /\ \E item \in {st.ls[key], st.idb[key]} :
          item.kind = "item" /\ ~(t > item.timestamp + item.ttl)

ObservePre(key) ==
    IF rateLimitState.remaining = 0
    THEN [zero |-> TRUE, held |-> HasUnexpiredEntry(Storage, key, now),
          cached |-> CacheGet(Storage, key, now).result,
          reset |-> rateLimitState.reset]
    ELSE NoPre

\* the value of a header written in decimal
Decimal(s) ==
    CASE s = <<"0">> -> 0 [] s = <<"1">> -> 1 [] s = <<"3","0">> -> 30
      [] s = <<"5","9">> -> 59 [] s = <<"6","0">> -> 60
      [] s = <<"7","2","0","0">> -> 7200 [] s = <<"9","0","0","0">> -> 9000
      [] s = <<"9","9","0","0">> -> 9900
      [] OTHER -> NaN

QuotaComplete(h) ==
    Absent \notin {h.limit, h.remaining, h.reset, h.used}

Raised(call, parsed) ==
    IF call.outcome.kind = "RateLimitError"
    THEN [call EXCEPT !.parsedAt = parsed] ELSE call

\* the entry of executeRequest: the cache is consulted first
StartAttempt(c, call) ==
    \E cached \in {CacheGet(Storage, generateCacheKey(call.endpoint), now)} :
    /\ localStorage' = cached.st.ls
    /\ idb' = cached.st.idb
    /\ calls' = [calls EXCEPT ![c] =
          IF cached.result # Null
          THEN [call EXCEPT !.pc = "done", !.outcome = Ok(cached.result)]
          ELSE [call EXCEPT !.pc = "missed"]]

\* makeRequest.  (Bound variables of singleton sets name values that are
\* computed once.)
MakeRequest(c, endpoint) ==
    /\ calls[c].pc \in {"idle", "done"}
    /\ \E call \in {[IdleCall EXCEPT
                        !.endpoint = endpoint,
                        !.pre = ObservePre(generateCacheKey(endpoint))]} :
       IF PreflightBlocked(rateLimitState)
       THEN \E cached \in {CacheGet(Storage, generateCacheKey(endpoint), now)} :
            /\ localStorage' = cached.st.ls
            /\ idb' = cached.st.idb
            /\ calls' = [calls EXCEPT ![c] =
                  Raised([call EXCEPT
                            !.pc = "done",
                            !.outcome = PreflightOutcome(cached.result,
                                                         rateLimitState)],
                         parsedReset)]
       ELSE StartAttempt(c, call)
    /\ UNCHANGED <<now, ticks, sets, lastOp, sideVars, rateLimitState,
                   parsedReset, lastEtag>>

\* one of at most MaxCalls calls of makeRequest, in the lowest free slot
Invoke(c, endpoint) ==
    /\ \A d \in CallIds : d < c => calls[d].pc \notin {"idle", "done"}
    /\ invocations < MaxCalls
    /\ invocations' = invocations + 1
    /\ MakeRequest(c, endpoint)

\* executeRequest: the conditional headers are read and fetch() is called
Send(c) ==
    LET call == calls[c]
        key == generateCacheKey(call.endpoint) IN
    /\ call.pc = "missed"
    /\ calls' = [calls EXCEPT ![c] =
          [call EXCEPT !.pc = "inflight", !.attempts = @ + 1,
                       !.sent = getCacheHeaders(Storage, key),
                       !.expectEtag = lastEtag[key]]]
    /\ UNCHANGED <<now, ticks, sets, localStorage, idb, lastOp, sideVars,
                   rateLimitState, invocations, parsedReset, lastEtag>>

\* the server answers 304 only to a conditional request
ServerMayAnswer(call, resp) ==
    resp.status = 304 =>
        (call.sent.ifNoneMatch # "" \/ call.sent.ifModifiedSince # "")

\* executeRequest from the settling of fetch() to its return, throw or the
\* await of cache.set, and the catch of executeRequestWithRetry
HandleAttempt(c, resp) ==
    /\ calls[c].pc = "inflight"
    /\ ServerMayAnswer(calls[c], resp)
    /\ \E call \in {calls[c]} :
       \E key \in {generateCacheKey(call.endpoint)} :
       \E h \in {HandleResponse(Storage, rateLimitState, key, resp, now)} :
       \E parsed \in {IF QuotaComplete(resp.quota)
                       THEN Decimal(resp.quota.reset) ELSE parsedReset} :
       \E seen \in {[call EXCEPT
                   !.sent = NoHeaders,
                   !.expectEtag = "",
                   !.resp = [status |-> resp.status, retryAfter |-> resp.retryAfter,
                             etag |-> resp.etag, body |-> resp.body],
                   !.respCached = IF resp.status \in {403, 429}
                                  THEN CacheGet(Storage, key, now).result
                                  ELSE Null]} :
           /\ localStorage' = h.st.ls
           /\ idb' = h.st.idb
           /\ rateLimitState' = h.rl
           /\ parsedReset' = parsed
           /\ calls' = [calls EXCEPT ![c] =
                 CASE h.kind = "return" ->
                        [seen EXCEPT !.pc = "done", !.outcome = Ok(h.value)]
                   [] h.kind = "store" -> [seen EXCEPT !.pc = "stored"]
                   [] h.kind = "throw" ->
                        IF ShouldRetry(h.value, call.retryCount)
                        THEN [seen EXCEPT !.pc = "sleeping", !.retryCount = @ + 1]
                        ELSE Raised([seen EXCEPT !.pc = "done",
                                                 !.outcome = h.value], parsed)]
           /\ UNCHANGED <<now, ticks, sets, lastOp, hist, engine, link, queued,
                          stepped, invocations, lastEtag>>

Respond(c, resp) ==
    /\ HandleAttempt(c, resp)
    /\ UNCHANGED observed

\* the same step, with the quota headers of the response kept in observed
ObservedRespond(c, resp) ==
    /\ HandleAttempt(c, resp)
    /\ observed' = resp.quota

\* executeRequest after "await this.cache.set(...)": the conditional
\* metadata is updated and the payload returned
FinishStore(c) ==
    LET call == calls[c]
        key == generateCacheKey(call.endpoint)
        st == IF call.resp.etag # ""
              THEN updateCacheHeaders(Storage, key, call.resp.etag, "")
              ELSE Storage IN
    /\ call.pc = "stored"
    /\ localStorage' = st.ls
    /\ idb' = st.idb
    /\ lastEtag' = [lastEtag EXCEPT ![key] = call.resp.etag]
    /\ calls' = [calls EXCEPT ![c] =
          [call EXCEPT !.pc = "done", !.outcome = Ok(call.resp.body),
                       !.resp = [@ EXCEPT !.etag = "", !.body = Null]]]
    /\ UNCHANGED <<now, ticks, sets, lastOp, sideVars, rateLimitState, invocations,
                   parsedReset>>

\* executeRequestWithRetry after sleep(retryDelay): the next attempt
Retry(c) ==
    /\ calls[c].pc = "sleeping"
    /\ StartAttempt(c, calls[c])
    /\ UNCHANGED <<now, ticks, sets, lastOp, sideVars, rateLimitState, invocations,
                   parsedReset, lastEtag>>

\* the endpoint the client is asked for
RequestEndpoints == { <<"/", "a">> }

\* between client steps the clock advances by a default TTL
ClientTickSteps == {defaultTTL}

Next ==
    \/ \E c \in CallIds, e \in RequestEndpoints : Invoke(c, e)
    \/ \E c \in CallIds : Send(c)
    \/ \E c \in CallIds, resp \in Responses : Respond(c, resp)
    \/ \E c \in CallIds : FinishStore(c)
    \/ \E c \in CallIds : Retry(c)
    \/ \E d \in ClientTickSteps : Tick(d)

Spec == Init /\ [][Next]_vars

(***************************************************************************)
(* One caller that asks again and again: makeRequest is called whenever    *)
(* the call before it has settled, every started step is carried out, and  *)
(* the clock advances up to MaxTicks times.                                *)
(***************************************************************************)
Caller == 1

NewRequest(endpoint) ==
    /\ MakeRequest(Caller, endpoint)
    /\ UNCHANGED invocations

QuotaNext ==
    \/ \E e \in RequestEndpoints : NewRequest(e)
    \/ Send(Caller)
    \/ \E resp \in Responses : Respond(Caller, resp)
    \/ FinishStore(Caller)
    \/ Retry(Caller)
    \/ \E d \in ClientTickSteps : Tick(d)

SpecQuota ==
    /\ Init
    /\ [][QuotaNext]_vars
    /\ WF_vars(\E e \in RequestEndpoints : NewRequest(e))
    /\ WF_vars(Send(Caller))
    /\ WF_vars(\E resp \in Responses : Respond(Caller, resp))
    /\ WF_vars(FinishStore(Caller))
    /\ WF_vars(Retry(Caller))

\* the single caller again, with the quota headers of each response observed
ObservedNext ==
    \/ \E e \in RequestEndpoints : NewRequest(e)
    \/ Send(Caller)
    \/ \E resp \in Responses : ObservedRespond(Caller, resp)
    \/ FinishStore(Caller)
    \/ Retry(Caller)
    \/ \E d \in ClientTickSteps : Tick(d)

SpecObserved == Init /\ [][ObservedNext]_vars

(***************************************************************************)
(* The queued client: makeRequest, RequestQueue.add and processQueue,      *)
(* executeRequestWithRetry and executeRequest of                           *)
(* services/GitHubApiClient.ts.                                            *)
(***************************************************************************)
\* isRetryableError of the queued client
queuedIsRetryableError(error) ==
    IF error.statusCode = 0 THEN TRUE
    ELSE error.statusCode >= 500 \/ error.statusCode = 408 \/ error.statusCode = 429

\* the catch of executeRequestWithRetry
queuedShouldRetry(error, retryCount) ==
    \/ error.kind = "SecondaryRateLimitError" /\ retryCount < queuedMaxRetries
    \/ /\ error.kind = "NetworkError"
       /\ retryCount < queuedMaxRetries
       /\ queuedIsRetryableError(error)

\* the catch of executeRequest: a RateLimitError or NetworkError is answered
\* from the cache when it has the key
CatchTyped(st, rl, key, error, t) ==
    IF error.kind \in {"RateLimitError", "NetworkError"}
    THEN LET g == CacheGet(st, key, t) IN
         IF g.result # Null
         THEN [st |-> g.st, rl |-> rl, kind |-> "return", value |-> g.result]
         ELSE [st |-> g.st, rl |-> rl, kind |-> "throw", value |-> error]
    ELSE [st |-> st, rl |-> rl, kind |-> "throw", value |-> error]

\* executeRequest of the queued client from the settling of fetch()
queuedHandleResponse(st, rl, key, resp, t) ==
    IF resp.status = 0
    THEN [st |-> st, rl |-> rl, kind |-> "throw",
          value |-> ToTypedError(FetchRejection)]
    ELSE
    LET rl1 == updateRateLimitFromHeaders(rl, resp.quota)
        g304 == IF resp.status = 304 THEN CacheGet(st, key, t)
                ELSE [st |-> st, result |-> Null]
        gLimit == CacheGet(g304.st, key, t)
    IN  IF resp.status = 304 /\ g304.result # Null
        THEN [st |-> g304.st, rl |-> rl1, kind |-> "return", value |-> g304.result]
        ELSE IF resp.status \in {403, 429}
        THEN IF resp.retryAfter # Absent
             THEN CatchTyped(g304.st, rl1, key,
                     SecondaryRateLimitError(parseInt(resp.retryAfter),
                                             resp.status), t)
             ELSE IF gLimit.result # Null
             THEN [st |-> gLimit.st, rl |-> rl1, kind |-> "return",
                   value |-> gLimit.result]
             ELSE CatchTyped(gLimit.st, rl1, key,
                     RateLimitError(rl1.reset, resp.status), t)
        ELSE IF ~ResponseOk(resp.status)
        THEN CatchTyped(g304.st, rl1, key, NetworkError(resp.status), t)
        ELSE [st |-> CacheSet(g304.st, key, resp.body, responseTTL, t, "none"),
              rl |-> rl1, kind |-> "store", value |-> resp.body]

\* processQueue after "await request.execute()": the promise of the request
\* is settled; the timer is set if requests are waiting, and otherwise the
\* loop ends and processing is cleared
Settle(q, i, outcome) ==
    LET q1 == [q EXCEPT !.req[i].pc = "settled",
                        !.req[i].outcome = outcome,
                        !.req[i].settlements = @ + 1] IN
    IF Len(q1.queue) > 0
    THEN [q1 EXCEPT !.timer = TRUE]
    ELSE [q1 EXCEPT !.processing = FALSE]

\* executeRequest up to fetch(): "Check cache first"
Attempt(q, st, i, t) ==
    LET g == CacheGet(st, generateCacheKey(q.req[i].endpoint), t) IN
    IF g.result # Null
    THEN [q |-> Settle(q, i, Ok(g.result)), st |-> g.st]
    ELSE [q |-> [q EXCEPT !.req[i].pc = "missed"], st |-> g.st]

\* processQueue: "const request = this.queue.shift()!" and request.execute()
Execute(q, st, t) ==
    LET i == Head(q.queue) IN
    Attempt([q EXCEPT !.queue = Tail(@),
                      !.req[i].executions = @ + 1,
                      !.started = Append(@, i)], st, i, t)

\* the head of the queue is executed although a loop is running
processQueue_Eager(q, st, t) ==
    IF Len(q.queue) = 0
    THEN [q |-> q, st |-> st]
    ELSE Execute([q EXCEPT !.processing = TRUE], st, t)

\* processQueue as called by add: it returns when a loop is running
processQueue(q, st, t) ==
    IF q.processing \/ Len(q.queue) = 0
    THEN [q |-> q, st |-> st]
    ELSE Execute([q EXCEPT !.processing = TRUE], st, t)

\* makeRequest of the queued client: the pre-flight check, then
\* requestQueue.add
QueuedMakeRequest(i, endpoint) ==
    /\ queued.req[i].pc = "idle"
    /\ \A j \in QIds : j < i => queued.req[j].pc # "idle"
    /\ IF PreflightBlocked(rateLimitState)
       THEN /\ queued' = [queued EXCEPT
                   !.req[i] = [IdleRequest EXCEPT
                      !.pc = "settled", !.endpoint = endpoint,
                      !.outcome = PreflightOutcome_NoCache(Null, rateLimitState)]]
            /\ UNCHANGED <<localStorage, idb>>
       ELSE \E r \in {processQueue(
                        [queued EXCEPT
                            !.req[i] = [IdleRequest EXCEPT
                                          !.pc = "waiting",
                                          !.endpoint = endpoint,
                                          !.behind = queued.processing],
                            !.queue = Append(@, i),
                            !.added = Append(@, i)],
                        Storage, now)} :
            /\ queued' = r.q
            /\ localStorage' = r.st.ls
            /\ idb' = r.st.idb
    /\ UNCHANGED <<now, ticks, sets, lastOp, clientVars, hist, engine, link, observed, stepped>>

\* executeRequest: the conditional headers are read and fetch() is called
QueuedSend(i) ==
    /\ queued.req[i].pc = "missed"
    /\ queued' = [queued EXCEPT
          !.req[i].pc = "inflight",
          !.req[i].sent = getCacheHeaders(Storage,
                              generateCacheKey(queued.req[i].endpoint))]
    /\ UNCHANGED <<cacheVars, clientVars, hist, engine, link, observed, stepped>>

\* executeRequest from the settling of fetch(), and the catch of
\* executeRequestWithRetry
QueuedRespond(i, resp) ==
    /\ queued.req[i].pc = "inflight"
    /\ ServerMayAnswer(queued.req[i], resp)
    /\ \E h \in {queuedHandleResponse(Storage, rateLimitState,
                      generateCacheKey(queued.req[i].endpoint), resp, now)} :
       \E seen \in {[queued EXCEPT
                       !.req[i].sent = NoHeaders,
                       !.req[i].resp = [status |-> resp.status,
                                        retryAfter |-> resp.retryAfter,
                                        etag |-> resp.etag,
                                        body |-> resp.body]]} :
           /\ localStorage' = h.st.ls
           /\ idb' = h.st.idb
           /\ rateLimitState' = h.rl
           /\ queued' =
                 CASE h.kind = "return" -> Settle(seen, i, Ok(h.value))
                   [] h.kind = "store" -> [seen EXCEPT !.req[i].pc = "stored"]
                   [] h.kind = "throw" ->
                        IF queuedShouldRetry(h.value, seen.req[i].retryCount)
                        THEN [seen EXCEPT !.req[i].pc = "sleeping",
                                          !.req[i].retryCount = @ + 1]
                        ELSE Settle(seen, i, h.value)
    /\ UNCHANGED <<now, ticks, sets, lastOp, calls, invocations, parsedReset,
                   lastEtag, hist, engine, link, observed, stepped>>

\* executeRequest after "await this.cache.set(...)"
QueuedFinishStore(i) ==
    LET r == queued.req[i]
        key == generateCacheKey(r.endpoint)
        st == IF r.resp.etag # ""
              THEN updateCacheHeaders(Storage, key, r.resp.etag, "")
              ELSE Storage IN
    /\ r.pc = "stored"
    /\ localStorage' = st.ls
    /\ idb' = st.idb
    /\ queued' = Settle(queued, i, Ok(r.resp.body))
    /\ UNCHANGED <<now, ticks, sets, lastOp, clientVars, hist, engine, link, observed, stepped>>

\* executeRequestWithRetry after sleep(delay): the next attempt
QueuedRetry(i) ==
    /\ queued.req[i].pc = "sleeping"
    /\ \E r \in {Attempt(queued, Storage, i, now)} :
          /\ queued' = r.q
          /\ localStorage' = r.st.ls
          /\ idb' = r.st.idb
    /\ UNCHANGED <<now, ticks, sets, lastOp, clientVars, hist, engine, link, observed, stepped>>

\* processQueue after the delay between requests: the loop goes on with the
\* head of the queue
DelayOver ==
    /\ queued.timer
    /\ \E r \in {Execute([queued EXCEPT !.timer = FALSE], Storage, now)} :
          /\ queued' = r.q
          /\ localStorage' = r.st.ls
          /\ idb' = r.st.idb
    /\ UNCHANGED <<now, ticks, sets, lastOp, clientVars, hist, engine, link, observed, stepped>>

QueuedNext ==
    \/ \E i \in QIds, e \in RequestEndpoints : QueuedMakeRequest(i, e)
    \/ \E i \in QIds : QueuedSend(i)
    \/ \E i \in QIds, resp \in Responses : QueuedRespond(i, resp)
    \/ \E i \in QIds : QueuedFinishStore(i)
    \/ \E i \in QIds : QueuedRetry(i)
    \/ DelayOver

SpecQueued == Init /\ [][QueuedNext]_vars

\* the answers of the server in the fair specification: a body that is
\* stored, an error that is not retried and one that is, all without quota
\* headers (a request refused by the pre-flight check is never added)
QueueAnswers ==
    { r \in Responses :
        /\ r.status \in {200, 404, 500}
        /\ r.quota = NoQuota
        /\ r.etag = ""
        /\ r.body = Null \/ SizeKB(r.body) < SizeThresholdKB }

QueuedFairNext ==
    \/ \E i \in QIds, e \in RequestEndpoints : QueuedMakeRequest(i, e)
    \/ \E i \in QIds : QueuedSend(i)
    \/ \E i \in QIds, resp \in QueueAnswers : QueuedRespond(i, resp)
    \/ \E i \in QIds : QueuedFinishStore(i)
    \/ \E i \in QIds : QueuedRetry(i)
    \/ DelayOver

\* every fetch() settles and every timer fires; callers are free to make a
\* request or not
QueuedFairness ==
    /\ WF_vars(\E i \in QIds : QueuedSend(i))
    /\ WF_vars(\E i \in QIds, resp \in QueueAnswers : QueuedRespond(i, resp))
    /\ WF_vars(\E i \in QIds : QueuedFinishStore(i))
    /\ WF_vars(\E i \in QIds : QueuedRetry(i))
    /\ WF_vars(DelayOver)

SpecQueuedFair == Init /\ [][QueuedFairNext]_vars /\ QueuedFairness

(***************************************************************************)
(* The direct client, step by step through the cache.                      *)
(***************************************************************************)
\* the time at which the TTL of the last success elapses
FreshUntil ==
    IF stepped.succeededAt = -1 THEN 0
    ELSE stepped.succeededAt + responseTTL

Request(kind, i, item) == [kind |-> kind, by |-> i, item |-> item]

\* makeRequest and executeRequest up to the first await of cache.get that
\* waits for the object store: getMetadata; invalidateKey removes the two
\* localStorage keys and issues the delete; or the localStorage item is
\* returned; or the object-store get is issued
SteppedCall(i) ==
    /\ stepped.op[i].pc = "idle"
    /\ \A j \in SIds : j < i => stepped.op[j].pc # "idle"
    /\ ~PreflightBlocked(rateLimitState)
    /\ LET metadata == getMetadata(Storage, SteppedKey)
           localItem == localStorage[SteppedKey]
           made == [stepped EXCEPT !.op[i].freshUntil = FreshUntil] IN
       IF metadata.kind = "none" \/ isExpired(metadata, now)
       THEN /\ localStorage' = [localStorage EXCEPT
                                   ![SteppedKey] = NoItem,
                                   ![MetaKey(SteppedKey)] = NoItem]
            /\ stepped' = [made EXCEPT
                  !.op[i].pc = "evicting",
                  !.requests = Append(@, Request("delete", i, NoItem))]
       ELSE IF localItem.kind = "item" /\ ~isExpired(localItem, now)
       THEN /\ stepped' = [made EXCEPT !.op[i].pc = "done",
                                       !.op[i].outcome = Ok(localItem.data)]
            /\ UNCHANGED localStorage
       ELSE /\ stepped' = [made EXCEPT
                  !.op[i].pc = "reading",
                  !.requests = Append(@, Request("get", i, NoItem))]
            /\ UNCHANGED localStorage
    /\ UNCHANGED <<now, ticks, sets, idb, lastOp, clientVars, hist, engine,
                   link, queued, observed>>

\* the oldest request to the object store completes and its caller goes on:
\* after the delete, get returns null; after the get, the record is returned
\* unless it is missing or expired; after the put, set writes the metadata,
\* executeRequest updates the conditional metadata and returns the body
IdbComplete ==
    /\ Len(stepped.requests) > 0
    /\ LET r == Head(stepped.requests)
           i == r.by
           rest == [stepped EXCEPT !.requests = Tail(@)]
           dbItem == idb[SteppedKey]
           put == [ls |-> localStorage,
                   idb |-> [idb EXCEPT ![SteppedKey] = r.item]]
           meta == setMetadata(put, SteppedKey,
                      NewMetadata(r.item.timestamp, r.item.ttl, r.item.data),
                      "none")
           etag == stepped.op[i].resp.etag
           st == IF etag # "" THEN updateCacheHeaders(meta, SteppedKey, etag, "")
                 ELSE meta IN
       CASE r.kind = "delete" ->
              /\ idb' = [idb EXCEPT ![SteppedKey] = NoItem]
              /\ stepped' = [rest EXCEPT !.op[i].pc = "missed"]
              /\ UNCHANGED localStorage
         [] r.kind = "get" ->
              /\ stepped' =
                    IF dbItem.kind = "item" /\ ~isExpired(dbItem, now)
                    THEN [rest EXCEPT !.op[i].pc = "done",
                                      !.op[i].outcome = Ok(dbItem.data)]
                    ELSE [rest EXCEPT !.op[i].pc = "missed"]
              /\ UNCHANGED <<localStorage, idb>>
         [] r.kind = "put" ->
              /\ localStorage' = st.ls
              /\ idb' = st.idb
              /\ stepped' = [rest EXCEPT
                    !.op[i].pc = "done",
                    !.op[i].outcome = Ok(r.item.data),
                    !.succeededAt = r.item.timestamp]
    /\ UNCHANGED <<now, ticks, sets, lastOp, clientVars, hist, engine, link,
                   queued, observed>>

\* executeRequest: fetch() is called
SteppedSend(i) ==
    /\ stepped.op[i].pc = "missed"
    /\ stepped' = [stepped EXCEPT !.op[i].pc = "inflight"]
    /\ UNCHANGED <<cacheVars, clientVars, hist, engine, link, queued, observed>>

\* the responses of this specification: a 200 with or without an ETag, and
\* a 404; none carries quota headers
SteppedResponses ==
    { resp \in Responses : resp.status \in {200, 404} /\ resp.quota = NoQuota }

\* executeRequest from the settling of fetch(): a 404 is thrown as
\* NetworkError; the body of a 200 is given to cache.set, which writes a
\* small payload and its metadata to localStorage at once and issues the put
\* of a large one
SteppedRespond(i, resp) ==
    /\ stepped.op[i].pc = "inflight"
    /\ LET seen == [stepped EXCEPT
                      !.op[i].resp = [status |-> resp.status,
                                      retryAfter |-> resp.retryAfter,
                                      etag |-> resp.etag, body |-> Null]]
           item == [kind |-> "item", data |-> resp.body, timestamp |-> now,
                    ttl |-> ActualTTL(responseTTL)]
           set == CacheSet(Storage, SteppedKey, resp.body, responseTTL, now,
                           "none")
           st == IF resp.etag # ""
                 THEN updateCacheHeaders(set, SteppedKey, resp.etag, "")
                 ELSE set IN
       IF ~ResponseOk(resp.status)
       THEN /\ stepped' = [seen EXCEPT
                  !.op[i].pc = "done",
                  !.op[i].outcome = NetworkError(resp.status)]
            /\ UNCHANGED localStorage
       ELSE IF SizeKB(resp.body) < SizeThresholdKB
       THEN /\ localStorage' = st.ls
            /\ stepped' = [seen EXCEPT
                  !.op[i].pc = "done",
                  !.op[i].outcome = Ok(resp.body),
                  !.succeededAt = now]
       ELSE /\ stepped' = [seen EXCEPT
                  !.op[i].pc = "putting",
                  !.requests = Append(@, Request("put", i, item))]
            /\ UNCHANGED localStorage
    /\ UNCHANGED <<now, ticks, sets, idb, lastOp, clientVars, hist, engine,
                   link, queued, observed>>

SteppedNext ==
    \/ \E i \in SIds : SteppedCall(i)
    \/ IdbComplete
    \/ \E i \in SIds : SteppedSend(i)
    \/ \E i \in SIds, resp \in SteppedResponses : SteppedRespond(i, resp)
    \/ \E d \in ClientTickSteps : Tick(d)

SpecStepped == Init /\ [][SteppedNext]_vars

SpecCache == Init /\ [][CacheNext]_vars

SpecCacheFaults == Init /\ [][FaultyCacheNext]_vars

(***************************************************************************)
(* Properties of the cache.                                                *)
(***************************************************************************)

\* C9: set(key, value, ttl) followed by get(key) before storedAt + ttl
\* returns exactly the value just set, whatever was stored under the key
\* before (lastOp.justSet is the value of a set that immediately preceded
\* the get, on the same key and still within its ttl).
C9_SetThenGetReturnsValue ==
    (lastOp.op = "get" /\ lastOp.justSet # Null)
        => lastOp.result = lastOp.justSet

\* C10: a get performed after storedAt + ttl of the key's entry has elapsed
\* returns null and leaves no payload of the key in either tier and no
\* metadata record; and no get ever returns a value that is not held by an
\* unexpired payload record.
C10_ExpiredGetEvicts ==
    /\ (lastOp.op = "get" /\ lastOp.expired)
          => /\ lastOp.result = Null
             /\ localStorage[lastOp.key] = NoItem
             /\ localStorage[MetaKey(lastOp.key)] = NoItem
             /\ idb[lastOp.key] = NoItem
    /\ lastOp.op = "get" => ~lastOp.stale

\* an expired entry with a payload in each tier has been read
C10_Witness ==
    /\ lastOp.op = "get" /\ lastOp.expired
    /\ lastOp.hadLocal /\ lastOp.hadDb
    /\ lastOp.result = Null

\* C11: a get of a key that follows a get of the same key, with no set or
\* invalidate between them and the key's entry not expired, returns what the
\* earlier get returned (lastOp.prev is the result of the get before, when
\* the operation before was a get of the same key).
C11_ConsecutiveGetsAgree ==
    (lastOp.op = "get" /\ lastOp.prev # NoItem /\ ~lastOp.expired)
        => lastOp.result = lastOp.prev

\* the key has the pattern as a substring
Contains(key, pattern) ==
    \E i \in 0..Len(key) :
        /\ i + Len(pattern) <= Len(key)
        /\ \A j \in 1..Len(pattern) : key[i + j] = pattern[j]

\* C16: after invalidate(pattern) every key that contains the pattern has
\* no payload in localStorage, none in the object store and no metadata
\* record, and a get of the key returns null.
C16_InvalidateRemovesMatching ==
    lastOp.op = "invalidate" =>
        \A k \in CacheKeys :
            Contains(k, lastOp.pattern)
                => /\ localStorage[k] = NoItem
                   /\ idb[k] = NoItem
                   /\ localStorage[MetaKey(k)] = NoItem
                   /\ CacheGet(Storage, k, now).result = Null

\* an invalidate has removed a readable entry of a key with the pattern
\* and has left the entry of a key without the pattern readable
C16_Witness ==
    /\ lastOp.op = "invalidate"
    /\ lastOp.hit # {}
    /\ \E k \in CacheKeys :
          ~Contains(k, lastOp.pattern) /\ CacheGet(Storage, k, now).result # Null

\* C15 as stated: set returns normally when one of its storage writes
\* fails, and the get of the key that follows returns null.
C15_FailedSetThenMiss ==
    /\ lastOp.op = "set" => ~lastOp.threw
    /\ (lastOp.op = "get" /\ lastOp.failedSet # NoItem) => lastOp.result = Null

\* C15, amended: set returns normally when one of its storage writes fails,
\* and the get of the key that follows returns null when a get before the
\* set would have returned null; otherwise it returns null, the value of
\* the set, or a value that a payload record of the key held before the set.
C15_FailedSetNoThrow ==
    /\ lastOp.op = "set" => ~lastOp.threw
    /\ (lastOp.op = "get" /\ lastOp.failedSet # NoItem)
          => /\ lastOp.result \in {Null, lastOp.failedSet.value}
                                   \cup lastOp.failedSet.held
             /\ lastOp.failedSet.before = Null => lastOp.result = Null

\* a set of a key without an entry has failed and the get that followed
\* has missed
C15_Witness ==
    /\ lastOp.op = "get"
    /\ lastOp.failedSet # NoItem
    /\ lastOp.failedSet.before = Null
    /\ lastOp.result = Null

(***************************************************************************)
(* Properties of the reading history.                                      *)
(***************************************************************************)

\* C12: the stored reading history holds at most 50 entries, no two of them
\* for the same (owner, repo, path), and the entry added last is its first
\* element: an entry added for a document already in the history replaces
\* the older entry.
C12_HistoryBoundedNoDuplicates ==
    LET h == getReadingHistory(localStorage) IN
    /\ Len(h) <= 50
    /\ \A i, j \in 1..Len(h) : SameDocument(h[i], h[j]) => i = j
    /\ hist.lastAdded # NoItem => (Len(h) > 0 /\ h[1] = hist.lastAdded)

\* a document already in a full history has been added again: the history
\* still has 50 entries, the new entry first and the old one gone
C12_Witness ==
    LET h == getReadingHistory(localStorage) IN
    /\ Len(h) = 50
    /\ hist.lastAdded = Entry("o", "r", 1, "new")
    /\ h[1] = hist.lastAdded
    /\ \A i \in 2..Len(h) : ~SameDocument(h[i], h[1])
    /\ h[2] = Entry("o", "r", 50, "old")

(***************************************************************************)
(* Properties of RandomEngine.                                             *)
(***************************************************************************)

\* C13: in one getRandomRepository call the user-anchored strategy runs
\* exactly when the repository search threw or came back empty; it is
\* attempted at most 5 times, the call returns with the first attempt that
\* succeeds and throws only when 5 attempts have failed; the call makes at
\* most 1 repository search, 5 user searches and 5 repository listings.
C13_BoundedFallback ==
    /\ engine.searches <= 1 /\ engine.userSearches <= 5 /\ engine.listings <= 5
    /\ engine.attempts <= 5
    /\ engine.attempts > 0 <=> engine.primary \in {"throws", "empty"}
    /\ (engine.op = "getRandomRepository" /\ engine.outcome = "throw")
          => (engine.attempts = 5 /\ engine.failed = 5)
    /\ (engine.outcome = "return" /\ engine.attempts > 0)
          => /\ engine.failed = engine.attempts - 1
             /\ engine.userSearches = engine.attempts
    /\ (engine.outcome = "return" /\ engine.attempts = 0)
          => (engine.userSearches = 0 /\ engine.listings = 0)

\* the search came back empty and the fifth attempt has failed: the call
\* has thrown after 1 search, 5 user searches and 5 listings
C13_Witness ==
    /\ engine.pc = "done" /\ engine.outcome = "throw"
    /\ engine.primary = "empty"
    /\ engine.searches = 1 /\ engine.userSearches = 5 /\ engine.listings = 5

(***************************************************************************)
(* Properties of link resolution.                                          *)
(***************************************************************************)
Rejected == [kind |-> "rejected"]

RECURSIVE Walk(_, _)
\* the directory reached from dir (a sequence of names) by the steps of a
\* link, or Rejected when a parent step leaves the repository root
Walk(dir, steps) ==
    IF steps = <<>> THEN Path(Join([i \in 1..Len(dir) |-> <<dir[i]>>]))
    ELSE IF steps[1] = "." THEN Walk(dir, Tail(steps))
    ELSE IF steps[1] = ".."
    THEN IF dir = <<>> THEN Rejected
         ELSE Walk(SubSeq(dir, 1, Len(dir) - 1), Tail(steps))
    ELSE Walk(Append(dir, steps[1]), Tail(steps))

Names(path) == LET IsName(t) == t # "/" IN SelectSeq(path, IsName)

\* what a link of the document at currentPath refers to
Expected(href, currentPath) ==
    LET names == Names(currentPath) IN
    Walk(SubSeq(names, 1, Len(names) - 1), Names(href))

\* C14: a relative link is resolved against the directory of the current
\* document: for a/b/c.md the link ../d.md gives a/d.md and ./e.md gives
\* a/b/e.md, a bare-relative link gives a path in the document's directory,
\* and a link whose parent steps leave the repository root is rejected: no
\* path is produced.
C14_RelativeLinksResolved ==
    link.pc = "resolved" => link.result = Expected(link.href, link.currentPath)

(***************************************************************************)
(* Properties of the API client.                                           *)
(***************************************************************************)

Done(c) == calls[c].pc = "done"

\* C1: a call made when rateLimitState.remaining is 0 and the cache holds
\* no unexpired entry for its key fails with RateLimitError carrying the
\* reset value of that moment, without any network request.
C1_NoQuotaNoCacheRaises ==
    \A c \in CallIds :
        (Done(c) /\ calls[c].pre.zero /\ ~calls[c].pre.held)
            => /\ calls[c].outcome = RateLimitError(calls[c].pre.reset, 403)
               /\ calls[c].attempts = 0

\* such a call has failed, after a quota header with a reset was parsed
C1_Witness ==
    \E c \in CallIds :
        /\ Done(c) /\ calls[c].pre.zero /\ ~calls[c].pre.held
        /\ calls[c].outcome.kind = "RateLimitError"
        /\ calls[c].outcome.resetTime = 7200

C6_ResetFromHeaders ==
    \A c \in CallIds :
        (Done(c) /\ calls[c].outcome.kind = "RateLimitError")
            => /\ calls[c].parsedAt # NaN
               /\ calls[c].outcome.resetTime = calls[c].parsedAt

\* C6, amended: every RateLimitError carries the reset header of the most
\* recent response from which quota headers were parsed or, when no
\* response has had its quota headers parsed yet, the reset the client was
\* constructed with.
C6_ResetFromHeadersOrInitial ==
    \A c \in CallIds :
        (Done(c) /\ calls[c].outcome.kind = "RateLimitError")
            => calls[c].outcome.resetTime =
                   IF calls[c].parsedAt = NaN THEN InitialRateLimit.reset
                   ELSE calls[c].parsedAt

\* a 429 without retry-after, after quota headers with reset 9000 were
\* parsed, has been delivered as RateLimitError with reset 9000
C6_Witness ==
    \E c \in CallIds :
        /\ Done(c)
        /\ calls[c].resp.status = 429
        /\ calls[c].outcome.kind = "RateLimitError"
        /\ calls[c].parsedAt = 9000
        /\ calls[c].outcome.resetTime = 9000

\* C7: a call whose attempt was answered 304 completes successfully; it
\* never ends in an error.
C7_NotModifiedNeverError ==
    \A c \in CallIds :
        (Done(c) /\ calls[c].resp.status = 304) => calls[c].outcome.kind = "ok"

\* C8: once a fetch for a key has completed with a response that carried
\* an ETag, a network request sent for that key afterwards carries
\* If-None-Match equal to that ETag.
C8_NextRequestConditional ==
    \A c \in CallIds :
        (calls[c].pc = "inflight" /\ calls[c].expectEtag # "")
            => calls[c].sent.ifNoneMatch = calls[c].expectEtag

\* C17: a call that fails ends with RateLimitError, SecondaryRateLimitError
\* or NetworkError and nothing else: a rejected fetch gives NetworkError
\* without a status code, and a 404, 408 or 500 response gives NetworkError
\* with that status code.
C17_FailuresAreTyped ==
    \A c \in CallIds :
        (Done(c) /\ calls[c].outcome.kind # "ok")
            => /\ calls[c].outcome.kind \in
                      {"RateLimitError", "SecondaryRateLimitError", "NetworkError"}
               /\ calls[c].resp.status \in {0, 404, 408, 500}
                      => calls[c].outcome = NetworkError(calls[c].resp.status)
               /\ calls[c].outcome.kind = "NetworkError"
                      => calls[c].outcome.statusCode = calls[c].resp.status

\* a call has failed with NetworkError without a status code after its
\* third fetch was rejected
C17_Witness ==
    \E c \in CallIds :
        /\ Done(c)
        /\ calls[c].resp.status = 0
        /\ calls[c].attempts = 3
        /\ calls[c].outcome = NetworkError(0)

\* the quota is used up, the recorded reset time has passed and the cache
\* has no unexpired entry for the key requested
ExhaustedAfterReset ==
    /\ rateLimitState.remaining = 0
    /\ now >= rateLimitState.reset * 1000
    /\ \A e \in RequestEndpoints :
          ~HasUnexpiredEntry(Storage, generateCacheKey(e), now)

\* a request of the caller is at the network
Admitted == calls[Caller].pc = "inflight"

\* C18: when the quota is used up and the recorded reset time has passed, a
\* caller that keeps asking for an uncached key eventually has a request
\* admitted to the network.
C18_QuotaRecoversAfterReset == [](ExhaustedAfterReset => <>Admitted)

\* the call has been accepted by makeRequest and its promise is not settled
Pending(i) == queued.req[i].pc \notin {"idle", "settled"}

\* C19: concurrent calls on one client are not mutually excluded: while the
\* network request of one call is in flight, every other call that
\* makeRequest has accepted is being executed on its own and never waits in
\* a queue for the first to finish.
C19_CallsNotMutuallyExcluded ==
    \A i, j \in QIds :
        (i # j /\ queued.req[i].pc = "inflight" /\ Pending(j))
            => queued.req[j].executions > 0

\* in the queued client at most one call is being executed at any time
OneAtATime ==
    Cardinality({i \in QIds : Pending(i) /\ queued.req[i].pc # "waiting"}) <= 1

\* in the direct client two calls have their requests in flight together
BothInFlight == \A c \in CallIds : calls[c].pc = "inflight"

\* the call has received a 2xx response and cache.set has written its payload
Stores(c) == calls[c].pc = "inflight" /\ calls'[c].pc = "stored"

\* what a get of the key of call c returns after the step
EntryAfter(c) ==
    CacheGet([ls |-> localStorage', idb |-> idb'],
             generateCacheKey(calls[c].endpoint), now').result

\* C20: under any interleaving of concurrent calls for one cache key the last
\* write wins: when a call writes the payload of its response to the cache,
\* the cache entry of the key is that complete payload.
C20_LastWriteWins ==
    [][\A c \in CallIds : Stores(c) => EntryAfter(c) = calls'[c].resp.body]_vars

\* the step handles a response of the server (a rejected fetch is none)
ResponseHandled ==
    /\ calls[Caller].pc = "inflight"
    /\ calls'[Caller].pc # "inflight"
    /\ calls'[Caller].resp.status # 0

\* the four quota headers as numbers
HeaderValues(h) ==
    [limit |-> Decimal(h.limit), remaining |-> Decimal(h.remaining),
     reset |-> Decimal(h.reset), used |-> Decimal(h.used)]

\* C21 as stated: RateLimitState changes only in a step that handles a
\* response, and after every such step its four fields are the quota header
\* values of that response.
C21_EveryResponseReplaces ==
    [][/\ rateLimitState' # rateLimitState => ResponseHandled
       /\ ResponseHandled => rateLimitState' = HeaderValues(observed')]_vars

\* C21, amended: RateLimitState changes only in a step that handles a
\* response; a response that carries all four quota headers replaces the
\* four fields together with its values, and a response that lacks one of
\* them leaves RateLimitState as it was.
C21_CompleteResponseReplaces ==
    [][/\ rateLimitState' # rateLimitState => ResponseHandled
       /\ ResponseHandled =>
              rateLimitState' = IF QuotaComplete(observed')
                                THEN HeaderValues(observed')
                                ELSE rateLimitState]_vars

\* a response with the four quota headers has just been handled and
\* RateLimitState holds its values; the call was then answered from the cache
\* or failed without the state changing
C21_Witness ==
    /\ QuotaComplete(observed)
    /\ rateLimitState = HeaderValues(observed)
    /\ rateLimitState.remaining = 59
    /\ calls[Caller].pc = "done"
    /\ calls[Caller].resp.status = 500
    /\ calls[Caller].attempts = 3

\* C22: a call for a key that is made after an earlier call for the key has
\* succeeded with a 2xx response, and before the TTL of six hours has
\* elapsed, is served from the cache: while the TTL has not elapsed it never
\* has a request at the network.
C22_FreshKeyServedFromCache ==
    \A i \in SIds :
        now < stepped.op[i].freshUntil => stepped.op[i].pc # "inflight"

\* C23: getNextFromTrail never throws: it returns a document or null, and
\* it returns null when the document has no relative markdown link and when
\* fetching the chosen link fails, whatever the error.
C23_TrailNeverThrows ==
    (engine.op = "getNextFromTrail" /\ engine.pc = "done")
        => /\ engine.outcome \in {"return", "null"}
           /\ engine.error = "none"
           /\ engine.links = 0 => engine.outcome = "null"
           /\ engine.raised # "none" => engine.outcome = "null"
           /\ engine.outcome = "return"
                 => (engine.links > 0 /\ engine.raised = "none")

\* the fetch of the chosen link was refused with a RateLimitError and
\* getNextFromTrail has returned null
C23_Witness ==
    /\ engine.op = "getNextFromTrail" /\ engine.pc = "done"
    /\ engine.links > 0
    /\ engine.raised = "RateLimitError"
    /\ engine.outcome = "null"

\* errorUtils.isRateLimitError, by which handleRandomClick chooses between
\* the rate-limit warning and the generic error
isRateLimitError(kind) == kind \in {"RateLimitError", "SecondaryRateLimitError"}

\* C24: when getRandomRepository or getRandomMarkdownFromRepo fails because
\* the API client threw a RateLimitError or a SecondaryRateLimitError, the
\* error that reaches the caller is of that kind, so that the handler of the
\* Home page shows the rate-limit warning.
C24_RateLimitKindKept ==
    (/\ engine.op \in {"getRandomRepository", "getRandomMarkdownFromRepo"}
     /\ engine.pc = "done" /\ engine.outcome = "throw"
     /\ isRateLimitError(engine.raised))
        => /\ engine.error = engine.raised
           /\ isRateLimitError(engine.error)

\* the tiers that hold a payload record of the key
Tiers(key) ==
    {t \in {"localStorage", "indexedDB"} :
        IF t = "localStorage" THEN localStorage[key].kind = "item"
        ELSE idb[key].kind = "item"}

\* C25: at every moment the payload of a cache key is stored in at most one
\* tier, so that after a set no older copy in the other tier can be returned
\* by a later get.
C25_PayloadInOneTier ==
    \A key \in CacheKeys : Cardinality(Tiers(key)) <= 1

\* the payload record get reads for the key: the localStorage item first,
\* the object-store record otherwise
Payload(st, key) ==
    IF st.ls[key].kind = "item" THEN st.ls[key].data
    ELSE IF st.idb[key].kind = "item" THEN st.idb[key].data
    ELSE Null

\* the call, back from cache.set, writes the ETag of its response to the
\* metadata of the key
WritesEtag(c) ==
    /\ calls[c].pc = "stored" /\ calls'[c].pc = "done"
    /\ calls[c].resp.etag # ""
    /\ getMetadata([ls |-> localStorage', idb |-> idb'],
                   generateCacheKey(calls[c].endpoint)).kind = "meta"

\* C26: the ETag held in the metadata of a key was received in the same
\* response as the payload stored for the key, under any interleaving of
\* concurrent requests: when a call writes the ETag of its response, the
\* payload of the key is the body of that response.
C26_EtagOfStoredPayload ==
    [][\A c \in CallIds :
          WritesEtag(c)
              => Payload([ls |-> localStorage', idb |-> idb'],
                         generateCacheKey(calls[c].endpoint))
                    = calls[c].resp.body]_vars

(***************************************************************************)
(* invalidate with a reading history in localStorage.  The patterns are    *)
(* those of a cache key and those found in the names CacheManager gives    *)
(* its own records.                                                        *)
(***************************************************************************)
OwnNamePatterns == { <<"alexandria-">>, <<"history">> }

InvalidateNext ==
    \/ \E k \in CacheKeys, v \in Values, ttl \in TTLArgs :
          CSet(k, v, ttl, "none")
    \/ \E k \in CacheKeys : CGet(k)
    \/ \E p \in Patterns \cup OwnNamePatterns : CInvalidate(p)
    \/ \E d \in TickSteps : Tick(d)

SpecInvalidate == HistoryInit /\ [][InvalidateNext]_vars

\* the payload records and the metadata of the key are as before the step
EntryUntouched(key) ==
    /\ localStorage'[key] = localStorage[key]
    /\ idb'[key] = idb[key]
    /\ localStorage'[MetaKey(key)] = localStorage[MetaKey(key)]

\* C27: invalidate(pattern) leaves untouched every cache entry whose key does
\* not contain the pattern, payload and metadata, and leaves the reading
\* history unchanged.
C27_InvalidateFrame ==
    [][\A p \in Patterns \cup OwnNamePatterns :
          CInvalidate(p)
              => /\ \A key \in CacheKeys :
                       ~Includes(key, p) => EntryUntouched(key)
                 /\ getReadingHistory(localStorage')
                        = getReadingHistory(localStorage)]_vars

\* C27 for the patterns taken from a cache key
C27_KeyPatternFrame ==
    [][\A p \in Patterns :
          CInvalidate(p)
              => /\ \A key \in CacheKeys :
                       ~Includes(key, p) => EntryUntouched(key)
                 /\ getReadingHistory(localStorage')
                        = getReadingHistory(localStorage)]_vars

\* the call issues a network attempt: fetch() is called
Fetches(c) == calls[c].pc = "missed" /\ calls'[c].pc = "inflight"

\* C28: no network attempt, first attempt or retry, is issued at a moment
\* when the remaining quota in the rate-limit state of the client is 0.
C28_NoAttemptAtZeroQuota ==
    [][\A c \in CallIds : Fetches(c) => rateLimitState.remaining # 0]_vars

IsPrefix(s, t) == Len(s) <= Len(t) /\ SubSeq(t, 1, Len(s)) = s

\* the request went through requestQueue.add
Added(i) == \E n \in 1..Len(queued.added) : queued.added[n] = i

SettledOnce(i) ==
    /\ queued.req[i].pc = "settled"
    /\ queued.req[i].executions = 1
    /\ queued.req[i].settlements = 1

\* at most one request is being executed, requests are started in the order
\* of add, and none is executed or settled twice
QueueDiscipline ==
    /\ Cardinality({i \in QIds : Pending(i) /\ queued.req[i].pc # "waiting"}) <= 1
    /\ IsPrefix(queued.started, queued.added)
    /\ \A i \in QIds :
          queued.req[i].executions <= 1 /\ queued.req[i].settlements <= 1

InHistory(item, h) == \E n \in 1..Len(h) : h[n] = item

\* the call writes its list and no call is left between its read and its
\* write
LastWriteOf(c) ==
    /\ hist.calls[c].pc = "read"
    /\ \A d \in HCallIds : hist'.calls[d].pc = "idle"

\* C30: when two addToHistory calls for different documents run
\* concurrently, both entries are in the stored reading history once both
\* calls have completed: the entry of the call that wrote last and the entry
\* written just before it.
C30_NoAdditionLost ==
    [][\A c \in HCallIds :
          LastWriteOf(c)
              => /\ InHistory(hist.calls[c].item, getReadingHistory(localStorage'))
                 /\ (/\ hist.lastAdded # NoItem
                     /\ ~SameDocument(hist.lastAdded, hist.calls[c].item))
                        => InHistory(hist.lastAdded,
                                     getReadingHistory(localStorage'))]_vars

====
